---- MODULE Spec2Model ----
(***************************************************************************)
(* Model of harvest.py: the date-range resolution of set_date_range and    *)
(* the per-granule retrieval loop of harvest_date_range.                   *)
(*                                                                         *)
(* The specifications share the variables:                                 *)
(*   SpecRange     one call of set_date_range on bounded inputs;           *)
(*   Spec          runs of harvest_date_range over a bounded range, the    *)
(*                 remote archive being fixed for the whole behaviour;     *)
(*   SpecEnum      one enumeration of paths_generator, step by step;       *)
(*   SpecEnumFair  SpecEnum, the consumer always asking for the next       *)
(*                 value.                                                  *)
(*                                                                         *)
(* Line 294 of harvest.py reads  logger.critical"Looks like a valid        *)
(* file!")  ; it is modelled as the logging call it stands for.            *)
(***************************************************************************)
EXTENDS Integers, Sequences, FiniteSets, TLC

\* ------------------------------------------------------------------ bounds
\* Largest day number of a date argument and of "today".
MaxDay == 3
\* Largest absolute value of the num_days argument.
MaxNumDays == 3
\* Largest end cursor of a harvested range (the range starts at cursor 0).
MaxEnd == 2
\* Number of times the harvester is run over the same range.
MaxRuns == 2

\* ------------------------------------------------------------- variables
VARIABLES
    args,        \* set_date_range: the parsed command line (start_date, end_date, num_days)
    utc_today,   \* set_date_range: day number of the current UTC day
    rpc,         \* set_date_range: "call" before the call, "done" after, "idle" in Spec
    result,      \* set_date_range: how the call ended
    conf,        \* harvest: dataset_conf and s3_basedir
    archive,     \* harvest: what a fetch of cursor c brings into the staging area
    roots,       \* harvest: which of local_basedir / hfiles_dirpath exist
    end_date,    \* harvest: last instant of the range
    start_date,  \* harvest: first instant of the range
    cur_date,    \* harvest: cursor of paths_generator
    nyield,      \* paths_generator: number of values yielded so far
    localDirs,   \* harvest: directories existing under local_basedir
    localFiles,  \* harvest: final tree, path -> content
    staging,     \* harvest: staging area (hfiles_dirpath), path -> content
    s3,          \* harvest: objects of the mirror, path -> content
    pc,          \* harvest: "start", "loop", "done", "aborted", or "idle" in SpecRange
    error,       \* harvest: exception that ended the run, "none" otherwise
    run,         \* harvest: number of the current run
    trace        \* harvest: events of all runs, in order

vars == <<args, utc_today, rpc, result, conf, archive, roots, start_date, end_date,
          cur_date, nyield, localDirs, localFiles, staging, s3, pc, error, run, trace>>

rangeVars == <<args, utc_today, rpc, result>>
harvestVars == <<conf, archive, roots, start_date, end_date, cur_date, nyield,
                 localDirs, localFiles, staging, s3, pc, error, run, trace>>

\* ---------------------------------------------------------- set_date_range
\* args is the dict of the command line: a key is in DOMAIN args exactly when
\* its value is not None.  has(a, k) is the truth value of args.get(k):
\* None is false, and so is the integer 0.
has(a, k) == k \in DOMAIN a /\ (k = "num_days" => a[k] # 0)

\* datetime(year, month, day, hour, minute, second, tzinfo=utc) as seconds
\* since day 0, the (year, month, day) triple being a day number.
datetime(day, hour, minute, second) == day * 86400 + hour * 3600 + minute * 60 + second

\* timedelta(days=n) - timedelta(seconds=1)
ndays_of(n) == n * 86400 - 1

\* The exit codes of the four range errors (sys.exit(1) .. sys.exit(4)).
ExitCodes == 1..4

exit(code) == [kind |-> "exit", code |-> code]
raise(exc) == [kind |-> "raise", exc |-> exc]
return(s, e) == [kind |-> "return", start |-> s, end |-> e]

\* The locals of set_date_range are a function from the bound names to
\* their values; reading a name that is not bound raises UnboundLocalError.
bound(l, n) == n \in DOMAIN l
bind(l, n, v) == [m \in (DOMAIN l) \cup {n} |-> IF m = n THEN v ELSE l[m]]

\* return start_date, end_date (line 131)
return_range(l) ==
    IF bound(l, "start_date") /\ bound(l, "end_date")
    THEN return(l["start_date"], l["end_date"])
    ELSE raise("UnboundLocalError")

\* A resolution that lets num_days win when all three arguments are given.
determine_range_start_wins(a, today, l) ==
    LET today_end == datetime(today, 23, 59, 59) IN
    IF has(a, "num_days") THEN
        LET ndays == ndays_of(a["num_days"]) IN
        IF has(a, "start_date") THEN
            return_range(bind(l, "end_date", l["start_date"] + ndays))
        ELSE IF has(a, "end_date") THEN
            return_range(bind(l, "start_date", l["end_date"] - ndays))
        ELSE return_range(bind(bind(l, "end_date", today_end),
                               "start_date", today_end - ndays))
    ELSE
        IF has(a, "start_date") /\ has(a, "end_date") THEN return_range(l)
        ELSE IF has(a, "start_date") THEN return_range(bind(l, "end_date", today_end))
        ELSE IF has(a, "end_date") THEN return_range(bind(l, "start_date", l["end_date"]))
        ELSE return_range(bind(bind(l, "start_date", datetime(today, 0, 0, 0)),
                               "end_date", today_end))

\* Lines 93-131: determine the missing bounds from the supplied arguments.
determine_range(a, today, l) ==
    LET today_end == datetime(today, 23, 59, 59) IN
    IF has(a, "num_days") THEN
        LET ndays == ndays_of(a["num_days"]) IN
        IF has(a, "start_date") /\ has(a, "end_date") THEN exit(4)
        ELSE IF has(a, "start_date") THEN
            IF bound(l, "start_date")
            THEN return_range(bind(l, "end_date", l["start_date"] + ndays))
            ELSE raise("UnboundLocalError")
        ELSE IF has(a, "end_date") THEN
            IF bound(l, "end_date")
            THEN return_range(bind(l, "start_date", l["end_date"] - ndays))
            ELSE raise("UnboundLocalError")
        ELSE return_range(bind(bind(l, "end_date", today_end),
                               "start_date", today_end - ndays))
    ELSE
        IF has(a, "start_date") /\ has(a, "end_date") THEN return_range(l)
        ELSE IF has(a, "start_date") THEN return_range(bind(l, "end_date", today_end))
        ELSE IF has(a, "end_date") THEN
            IF bound(l, "end_date")
            THEN return_range(bind(l, "start_date", l["end_date"]))
            ELSE raise("UnboundLocalError")
        ELSE return_range(bind(bind(l, "start_date", datetime(today, 0, 0, 0)),
                               "end_date", today_end))

\* Lines 88-91: the day count check.
check_num_days(a, today, l) ==
    IF has(a, "num_days") /\ a["num_days"] < 1 THEN exit(3)
    ELSE determine_range(a, today, l)

\* Lines 80-87: the end date and its comparison with the local start_date.
check_end_date(a, today, l) ==
    IF has(a, "end_date") THEN
        LET end_date_in == a["end_date"]
            l2 == bind(l, "end_date",
                       datetime(end_date_in.day, end_date_in.hour, 59, 59))
        IN  IF ~bound(l2, "start_date") THEN raise("UnboundLocalError")
            ELSE IF l2["end_date"] < l2["start_date"] THEN exit(2)
            ELSE check_num_days(a, today, l2)
    ELSE check_num_days(a, today, l)

\* set_date_range(args, date_fmt): a date argument is the pair (day, hour)
\* that strptime reads from it; hour is 0 under the format "%Y%m%d".
set_date_range(a, today) ==
    LET today0 == datetime(today, 0, 0, 0)
        l0 == [n \in {} |-> 0]
    IN  IF has(a, "start_date") THEN
            LET start_date_in == a["start_date"]
                l1 == bind(l0, "start_date",
                           datetime(start_date_in.day, start_date_in.hour, 0, 0))
            IN  IF l1["start_date"] > today0 THEN exit(1)
                ELSE check_end_date(a, today, l1)
        ELSE check_end_date(a, today, l0)

\* Hours a date argument can carry (0 is what "%Y%m%d" gives).
Hours == {0, 13}
DateArgs == [day : 0..MaxDay, hour : Hours]
NumDaysArgs == (-MaxNumDays)..MaxNumDays

ArgKeys == {"start_date", "end_date", "num_days"}
\* Every dict of the three optional arguments: each is given or None.
AllArgs == {[k \in K |-> full[k]] :
               full \in [start_date : DateArgs, end_date : DateArgs,
                         num_days : NumDaysArgs],
               K \in SUBSET ArgKeys}

NoArgs == [k \in {} |-> 0]
NoResult == [kind |-> "none"]


\* ------------------------------------------------------------ SpecRange
IdleHarvest ==
    /\ conf = [time_res |-> <<"1", "d">>, s3_basedir |-> FALSE]
    /\ archive = <<>>
    /\ roots = {}
    /\ start_date = 0
    /\ end_date = 0
    /\ cur_date = 0
    /\ nyield = 0
    /\ localDirs = {}
    /\ localFiles = <<>>
    /\ staging = <<>>
    /\ s3 = <<>>
    /\ pc = "idle"
    /\ error = "none"
    /\ run = 0
    /\ trace = <<>>

InitRange ==
    /\ args \in AllArgs
    /\ utc_today \in 0..MaxDay
    /\ rpc = "call"
    /\ result = NoResult
    /\ IdleHarvest

\* main, line 327: start_date, end_date = set_date_range(args, ...)
CallSetDateRange ==
    /\ rpc = "call"
    /\ result' = set_date_range(args, utc_today)
    /\ rpc' = "done"
    /\ UNCHANGED <<args, utc_today>>
    /\ UNCHANGED harvestVars

NextRange == CallSetDateRange

SpecRange == InitRange /\ [][NextRange]_vars

\* -------------------------------------------- time_setting_dict, timedelta
\* A string is the sequence of its characters.
DigitChars == <<"0", "1", "2", "3", "4", "5", "6", "7", "8", "9">>
IsDigit(ch) == \E i \in 1..Len(DigitChars) : DigitChars[i] = ch
DigitVal(ch) == (CHOOSE i \in 1..Len(DigitChars) : DigitChars[i] = ch) - 1

\* The value of a string of decimal digits.
RECURSIVE DecimalValue(_)
DecimalValue(s) ==
    IF s = <<>> THEN 0
    ELSE 10 * DecimalValue(SubSeq(s, 1, Len(s) - 1)) + DigitVal(s[Len(s)])

\* int(s) for a string of digits, signs and letters: an optional sign, then
\* one or more digits; anything else raises ValueError.
int(s) ==
    LET signed == s # <<>> /\ s[1] \in {"+", "-"}
        digits == IF signed THEN Tail(s) ELSE s
    IN  IF digits # <<>> /\ \A i \in 1..Len(digits) : IsDigit(digits[i])
        THEN [kind |-> "ok",
              val |-> IF signed /\ s[1] = "-" THEN 0 - DecimalValue(digits)
                      ELSE DecimalValue(digits)]
        ELSE [kind |-> "raise", exc |-> "ValueError"]

\* time_unit_dict (lines 168-172), each timedelta keyword given by the
\* number of seconds of one unit.
UnitLetters == {"s", "m", "h", "d", "w"}
time_unit_dict(letter) ==
    CASE letter = "s" -> 1
      [] letter = "m" -> 60
      [] letter = "h" -> 3600
      [] letter = "d" -> 86400
      [] letter = "w" -> 604800

\* time_setting_dict(time_str) (line 173): the key time_unit_dict[time_str[-1]]
\* is evaluated first, then int(time_str[:-1]).
time_setting_dict(time_str) ==
    IF time_str = <<>> THEN [kind |-> "raise", exc |-> "IndexError"]
    ELSE IF time_str[Len(time_str)] \notin UnitLetters
         THEN [kind |-> "raise", exc |-> "KeyError"]
    ELSE LET n == int(SubSeq(time_str, 1, Len(time_str) - 1)) IN
         IF n.kind = "raise" THEN n
         ELSE [kind |-> "ok", unit |-> time_unit_dict(time_str[Len(time_str)]),
               val |-> n.val]

\* timedelta(**time_setting_dict(time_res)), in seconds.
timedelta(setting) == setting.val * setting.unit

\* os.path.isabs(local_path_template) (line 190)
isabs(template) == template.abs

\* paths_generator up to its loop (lines 189-194): the exception it raises,
\* or the time increment.
paths_generator_begin(dataset_conf) ==
    IF isabs(dataset_conf.local_path_template)
    THEN [kind |-> "raise", exc |-> "ValueError"]
    ELSE LET setting == time_setting_dict(dataset_conf.time_res) IN
         IF setting.kind = "raise" THEN setting
         ELSE [kind |-> "ok", time_incr |-> timedelta(setting)]

\* time_incr of the running generator (line 193).
time_incr == paths_generator_begin(conf).time_incr

\* ------------------------------------------------------ harvest_date_range
\* A path is the record of the parts the templates give it: the directory and
\* the date key come from the date tokens, the stem and the extension from the
\* literal text of the template.  local_abs_path is local_basedir joined with
\* local_rel_path, so one record stands for both.
Path(dir, stem, key, ext) == [dir |-> dir, stem |-> stem, key |-> key, ext |-> ext]

\* The directory -P hfiles_dirpath itself (wget -nd puts its files there).
StagingRoot == 0 - 1
\* tmp_fname = "" (line 275)
EmptyName == Path(0 - 2, "", 0, "")
\* A directory part of a template that has a '*' in it.
WildDir == 0 - 3

NoFiles == [p \in {} |-> ""]

\* replace_template(template, cur_date): the directory part carries the
\* coarser date fields (it changes every second day), the file name the full
\* date; a '*' of the template is not a token and stays.
replace_template(template, cur) ==
    Path(IF template.dir_wild THEN WildDir ELSE cur \div datetime(2, 0, 0, 0),
         template.stem, cur, template.ext)

\* One value of paths_generator (lines 196-200).
paths_generator_yield(cur) ==
    [url |-> replace_template(conf.url_template, cur),
     local_abs_path |-> replace_template(conf.local_path_template, cur),
     local_rel_path |-> replace_template(conf.local_path_template, cur)]

\* os.path.dirname / os.path.basename / join(dirname(p), basename(f))
dirname(p) == p.dir
with_basename(p, f) == Path(p.dir, f.stem, f.key, f.ext)

\* A test that never sees the '*' of a directory.
wildcard_in_dir_never(url) == url.dir = WildDir /\ url.dir # WildDir

\* '*' in url (line 252) and '*' in url_dir (line 262)
has_wildcard(url) == url.stem = "*" \/ url.dir = WildDir
wildcard_in_dir(url) == url.dir = WildDir

\* A presence check that never finds the granule.
local_exists_never(p) == p \in {}

\* os.path.exists on the final tree (line 251) and on the staging area (line 292)
local_exists(p) == p \in DOMAIN localFiles
staged_exists(st, p) == p \in DOMAIN st

\* Writing the fetched files into a tree: f overrides st.
write_files(st, f) ==
    [p \in (DOMAIN st) \cup (DOMAIN f) |-> IF p \in DOMAIN f THEN f[p] ELSE st[p]]
remove_file(st, p) == [q \in (DOMAIN st) \ {p} |-> st[q]]

\* run(["wget", ..., url_dir, "-A", url_file, "-P", hfiles_dirpath]) (line 265):
\* every file the archive has for the pattern lands in the staging root.
wget_wildcard(st, url, cur) ==
    write_files(st, [p \in {Path(StagingRoot, e.stem, url.key, url.ext) : e \in archive[cur]}
                       |-> (CHOOSE e \in archive[cur] : e.stem = p.stem).content])

\* run(["wget", url, "-q", "-O", tmp_fname]) (line 287): the file of the
\* archive, if the fetch brings one, is written to tmp_fname.
wget_exact(st, tmp_fname, cur) ==
    IF archive[cur] = {} THEN st
    ELSE write_files(st, [p \in {tmp_fname} |-> (CHOOSE e \in archive[cur] : TRUE).content])

\* glob(os.path.join(hfiles_dirpath, url_file)) (line 272)
glob(st, url) ==
    {p \in DOMAIN st : p.dir = StagingRoot /\ p.key = url.key /\ p.ext = url.ext}

\* glob returns a list: its first element is any of the matches.
first_of(fnames) == CHOOSE p \in fnames : TRUE

\* A listing that settles several matches by taking the first.
wildcard_match_first(tmp_fnames) ==
    IF Cardinality(tmp_fnames) = 0 THEN [kind |-> "none", tmp_fname |-> EmptyName]
    ELSE [kind |-> "one", tmp_fname |-> first_of(tmp_fnames)]

\* A listing that treats an empty result as an error.
wildcard_match_empty_raises(tmp_fnames) ==
    IF Cardinality(tmp_fnames) = 1 THEN [kind |-> "one", tmp_fname |-> first_of(tmp_fnames)]
    ELSE [kind |-> "raise", tmp_fname |-> EmptyName]

\* Lines 273-284: the outcome of the wildcard listing.
wildcard_match(tmp_fnames) ==
    LET nfiles == Cardinality(tmp_fnames) IN
    IF nfiles = 0 THEN [kind |-> "none", tmp_fname |-> EmptyName]
    ELSE IF nfiles = 1 THEN [kind |-> "one", tmp_fname |-> first_of(tmp_fnames)]
    ELSE [kind |-> "raise", tmp_fname |-> EmptyName]

\* is_valie_nc_file (lines 210-216): Dataset(f) opens the file or raises.
is_valie_nc_file(content) == content = "good"

\* A validation that assumes every file valid.
is_valid_file_always(f, content) == IF f.ext = ".nc" THEN "True" ELSE "True"

\* is_valid_file (lines 218-225).  The name it calls for a ".nc" file,
\* is_valid_nc_file, is defined nowhere: the call raises NameError.
is_valid_file(f, content) ==
    IF f.ext = ".nc" THEN "NameError" ELSE "True"

Event(ev, cur) == [ev |-> ev, cur |-> cur, run |-> run]

\* Exceptions leave harvest_date_range and end the run.
Abort(exc, st, tr) ==
    /\ pc' = "aborted"
    /\ error' = exc
    /\ staging' = st
    /\ trace' = tr
    /\ UNCHANGED <<cur_date, localFiles, s3>>

\* A loop that goes on without advancing the cursor.
Continue_same_cursor(cur, files, st, objs, tr) ==
    /\ cur_date' = cur
    /\ localFiles' = files
    /\ staging' = st
    /\ s3' = objs
    /\ trace' = tr
    /\ UNCHANGED <<pc, error>>

\* The loop goes on with the next value of the generator (line 201).
Continue(cur, files, st, objs, tr) ==
    /\ cur_date' = cur + time_incr
    /\ localFiles' = files
    /\ staging' = st
    /\ s3' = objs
    /\ trace' = tr
    /\ UNCHANGED <<pc, error>>

\* upload_to_s3 (lines 203-208): the object is stored, or upload_file raises.
upload_to_s3(objs, s3_path, content, putOk) ==
    IF putOk THEN [ok |-> TRUE, s3 |-> write_files(objs, [p \in {s3_path} |-> content])]
    ELSE [ok |-> FALSE, s3 |-> objs]

\* Lines 292-306: validate the staged file, then commit or discard it.
validate_and_commit(cur, tmp_fname, local_abs_path, local_rel_path, st, tr, putOk) ==
    IF staged_exists(st, tmp_fname) THEN
        LET valid == is_valid_file(tmp_fname, st[tmp_fname]) IN
        IF valid = "NameError" THEN Abort("NameError", st, tr)
        ELSE IF valid = "True" THEN
            LET files1 == write_files(localFiles, [p \in {local_abs_path} |-> st[tmp_fname]])
                st1 == remove_file(st, tmp_fname)
                tr1 == Append(tr, Event("commit", cur))
            IN  IF conf.s3_basedir THEN
                    LET up == upload_to_s3(s3, local_rel_path, files1[local_abs_path], putOk)
                        tr2 == Append(tr1, Event("upload", cur))
                    IN  IF up.ok THEN Continue(cur, files1, st1, up.s3, tr2)
                        ELSE /\ pc' = "aborted"
                             /\ error' = "S3UploadFailedError"
                             /\ localFiles' = files1
                             /\ staging' = st1
                             /\ trace' = Append(tr2, Event("put_failed", cur))
                             /\ UNCHANGED <<cur_date, s3>>
                ELSE Continue(cur, files1, st1, s3, tr1)
        ELSE
            LET st1 == remove_file(st, tmp_fname)
                tr1 == Append(tr, Event("unable", cur))
            IN  Continue(cur, localFiles, st1, s3, tr1)
    ELSE Continue(cur, localFiles, st, s3, tr)

\* One iteration of the loop of harvest_date_range (lines 246-306).
harvest_iteration(putOk) ==
    /\ pc = "loop"
    /\ cur_date <= end_date
    /\ LET cur == cur_date
           g == paths_generator_yield(cur)
           local_dir == dirname(g.local_abs_path)
       IN  /\ localDirs' = localDirs \cup {local_dir}
           /\ IF local_exists(g.local_abs_path)
              THEN Continue(cur, localFiles, staging, s3, trace)
              ELSE LET tr1 == Append(trace, Event("fetch", cur)) IN
                   IF has_wildcard(g.url) /\ wildcard_in_dir(g.url)
                   THEN Abort("ValueError", staging, trace)
                   ELSE IF has_wildcard(g.url) THEN
                       LET st1 == wget_wildcard(staging, g.url, cur)
                           m == wildcard_match(glob(st1, g.url))
                       IN  IF m.kind = "raise" THEN Abort("RuntimeError", st1, tr1)
                           ELSE IF m.kind = "one" THEN
                               validate_and_commit(cur, m.tmp_fname,
                                   with_basename(g.local_abs_path, m.tmp_fname),
                                   with_basename(g.local_rel_path, m.tmp_fname),
                                   st1, tr1, putOk)
                           ELSE validate_and_commit(cur, m.tmp_fname, g.local_abs_path,
                                                    g.local_rel_path, st1, tr1, putOk)
                   ELSE
                       LET tmp_fname == g.local_rel_path
                           st1 == wget_exact(staging, tmp_fname, cur)
                       IN  validate_and_commit(cur, tmp_fname, g.local_abs_path,
                                               g.local_rel_path, st1, tr1, putOk)
    /\ UNCHANGED <<conf, archive, roots, start_date, end_date, nyield, run>>
    /\ UNCHANGED rangeVars

\* Lines 239-247: both directories must exist; then the for statement starts
\* paths_generator, which checks the template and parses time_res before it
\* yields its first value.
harvest_enter ==
    /\ pc = "start"
    /\ IF "local_basedir" \notin roots \/ "hfiles_dirpath" \notin roots
       THEN pc' = "aborted" /\ error' = "OSError"
       ELSE LET b == paths_generator_begin(conf) IN
            IF b.kind = "raise"
            THEN pc' = "aborted" /\ error' = b.exc
            ELSE pc' = "loop" /\ error' = error
    /\ UNCHANGED <<conf, archive, roots, start_date, end_date, cur_date, nyield,
                   localDirs, localFiles, staging, s3, run, trace>>
    /\ UNCHANGED rangeVars

\* paths_generator, line 195: the loop ends when the cursor passes end_date.
harvest_return ==
    /\ pc = "loop"
    /\ cur_date > end_date
    /\ pc' = "done"
    /\ UNCHANGED <<conf, archive, roots, start_date, end_date, cur_date, nyield,
                   localDirs, localFiles, staging, s3, error, run, trace>>
    /\ UNCHANGED rangeVars

\* main is invoked again over the same range and dataset (lines 343-346).
main_again ==
    /\ pc \in {"done", "aborted"}
    /\ run < MaxRuns
    /\ run' = run + 1
    /\ pc' = "start"
    /\ error' = "none"
    /\ cur_date' = start_date
    /\ UNCHANGED <<conf, archive, roots, start_date, end_date, nyield, localDirs,
                   localFiles, staging, s3, trace>>
    /\ UNCHANGED rangeVars

\* The cursors of a daily harvest that starts at day 0.
Cursors == {datetime(d, 0, 0, 0) : d \in 0..MaxEnd}
\* time_res of the datasets harvested, and values that cannot be parsed.
GoodTimeRes == {<<"1", "d">>, <<"2", "d">>}
BadTimeRes == {<<>>, <<"d">>, <<"1", "x">>, <<"x", "d">>}
\* A count with a sign, which int() takes.
SignedTimeRes == {<<"+", "1", "d">>}
Exts == {".nc", ".dat"}
Contents == {"old", "good", "bad"}

\* What a fetch can bring for one cursor: nothing, one file, or (for a
\* wildcard) two files.
ExactFetches == {{}, {[stem |-> "g", content |-> "good"]}, {[stem |-> "g", content |-> "bad"]}}
WildFetches == {{}, {[stem |-> "a", content |-> "good"]}, {[stem |-> "a", content |-> "bad"]},
                {[stem |-> "a", content |-> "good"], [stem |-> "b", content |-> "bad"]}}

IdleRange ==
    /\ args = NoArgs
    /\ utc_today = 0
    /\ rpc = "idle"
    /\ result = NoResult

\* The reasons of configuration for which a run ends before or at its first
\* fetch; the initial states have at most one of them.
Misconfigurations ==
    <<roots # {"local_basedir", "hfiles_dirpath"},
      conf.local_path_template.abs,
      conf.time_res \in BadTimeRes,
      conf.url_template.dir_wild>>
Misconfigured == \E k \in 1..4 : Misconfigurations[k]
\* The configurations tried with one archive and at most one present file.
Uncommon == Misconfigured \/ conf.time_res \in SignedTimeRes

Init ==
    /\ IdleRange
    /\ \E wild \in BOOLEAN, ext \in Exts, mirror \in BOOLEAN,
          res \in GoodTimeRes \cup SignedTimeRes \cup BadTimeRes, abs \in BOOLEAN, dir_wild \in BOOLEAN :
          conf = [url_template |-> [stem |-> IF wild THEN "*" ELSE "g", ext |-> ext,
                                    dir_wild |-> dir_wild],
                  local_path_template |-> [stem |-> IF wild THEN "*" ELSE "g", ext |-> ext,
                                           dir_wild |-> FALSE, abs |-> abs],
                  time_res |-> res,
                  s3_basedir |-> mirror]
    /\ roots \in SUBSET {"local_basedir", "hfiles_dirpath"}
    /\ Cardinality({k \in 1..4 : Misconfigurations[k]}) <= 1
    /\ conf.time_res \in SignedTimeRes => ~Misconfigured
    /\ Uncommon => conf.s3_basedir
    /\ start_date = 0
    /\ end_date \in {c + datetime(0, 23, 59, 59) : c \in Cursors}
    /\ cur_date = start_date
    /\ nyield = 0
    /\ LET fetches == IF conf.url_template.stem = "*" THEN WildFetches ELSE ExactFetches
           cursors == {c \in Cursors : c <= end_date}
       IN  IF Uncommon
           THEN archive \in {[c \in cursors |-> e] : e \in fetches \ {{}}}
           ELSE archive \in [cursors -> fetches]
    /\ \E present \in SUBSET {c \in Cursors : c <= end_date} :
          LET stem == IF conf.url_template.stem = "*" THEN "a" ELSE "g"
              old == {with_basename(replace_template(conf.local_path_template, c),
                                    Path(StagingRoot, stem, c, conf.url_template.ext)) :
                          c \in present}
          IN  /\ Uncommon => Cardinality(present) <= 1
              /\ localFiles = [p \in old |-> "old"]
              /\ localDirs = {dirname(p) : p \in old}
    /\ staging = NoFiles
    /\ s3 = NoFiles
    /\ pc = "start"
    /\ error = "none"
    /\ run = 1
    /\ trace = <<>>

Next ==
    \/ harvest_enter
    \/ \E putOk \in BOOLEAN : harvest_iteration(putOk)
    \/ harvest_return
    \/ main_again

Spec == Init /\ [][Next]_vars

\* --------------------------------------------------------- paths_generator
\* The enumeration of paths_generator alone: SpecEnum starts the generator on
\* a range and a time_res and takes its values one by one.

\* A loop test that leaves out the end of the range.
loop_test_strict(cur, end) == cur < end

\* while cur_date <= end_date (line 195)
loop_test(cur, end) == cur <= end

\* The count of yielded values is kept up to this cap; an enumeration of a
\* range of the initial states by a step of 12 hours or more stays below it.
YieldCap == 2 * MaxDay + 4

\* The first next(): lines 189-194.
gen_begin ==
    /\ pc = "gen_start"
    /\ LET b == paths_generator_begin(conf) IN
       IF b.kind = "raise"
       THEN pc' = "gen_raised" /\ error' = b.exc
       ELSE pc' = "gen_loop" /\ error' = error
    /\ UNCHANGED <<conf, archive, roots, start_date, end_date, cur_date, nyield,
                   localDirs, localFiles, staging, s3, run, trace>>
    /\ UNCHANGED rangeVars

\* Lines 195-200: the loop test holds and the generator yields.
gen_yield ==
    /\ pc = "gen_loop"
    /\ loop_test(cur_date, end_date)
    /\ pc' = "gen_yielded"
    /\ nyield' = IF nyield < YieldCap THEN nyield + 1 ELSE nyield
    /\ UNCHANGED <<conf, archive, roots, start_date, end_date, cur_date,
                   localDirs, localFiles, staging, s3, error, run, trace>>
    /\ UNCHANGED rangeVars

\* Line 201: the consumer asks for the next value, cur_date += time_incr.
gen_resume ==
    /\ pc = "gen_yielded"
    /\ cur_date' = cur_date + time_incr
    /\ pc' = "gen_loop"
    /\ UNCHANGED <<conf, archive, roots, start_date, end_date, nyield,
                   localDirs, localFiles, staging, s3, error, run, trace>>
    /\ UNCHANGED rangeVars

\* Line 195: the loop test fails and the generator is exhausted.
gen_return ==
    /\ pc = "gen_loop"
    /\ ~loop_test(cur_date, end_date)
    /\ pc' = "gen_done"
    /\ UNCHANGED <<conf, archive, roots, start_date, end_date, cur_date, nyield,
                   localDirs, localFiles, staging, s3, error, run, trace>>
    /\ UNCHANGED rangeVars

\* time_res values of the enumeration: steps of 12 hours and more, steps of
\* zero, and values that cannot be parsed.
EnumTimeRes == {<<"1", "2", "h">>, <<"3", "6", "h">>, <<"1", "d">>, <<"2", "d">>,
                <<"1", "w">>, <<"0", "d">>, <<"0", "0", "s">>} \cup BadTimeRes
\* Range bounds: starts on the hour, ends at :59:59 or on the day.
EnumStarts == {datetime(d, h, 0, 0) : d \in 0..MaxDay, h \in Hours}
EnumEnds == {datetime(d, h, 59, 59) : d \in 0..MaxDay, h \in {0, 23}}
               \cup {datetime(d, 0, 0, 0) : d \in 0..MaxDay}

InitEnum ==
    /\ IdleRange
    /\ \E res \in EnumTimeRes, abs \in BOOLEAN :
          conf = [url_template |-> [stem |-> "g", ext |-> ".dat", dir_wild |-> FALSE],
                  local_path_template |-> [stem |-> "g", ext |-> ".dat",
                                           dir_wild |-> FALSE, abs |-> abs],
                  time_res |-> res,
                  s3_basedir |-> FALSE]
    /\ start_date \in EnumStarts
    /\ end_date \in EnumEnds
    /\ start_date <= end_date
    /\ cur_date = start_date
    /\ nyield = 0
    /\ archive = <<>>
    /\ roots = {"local_basedir", "hfiles_dirpath"}
    /\ localDirs = {}
    /\ localFiles = NoFiles
    /\ staging = NoFiles
    /\ s3 = NoFiles
    /\ pc = "gen_start"
    /\ error = "none"
    /\ run = 1
    /\ trace = <<>>

NextEnum ==
    \/ gen_begin
    \/ gen_yield
    \/ gen_resume
    \/ gen_return

SpecEnum == InitEnum /\ [][NextEnum]_vars

\* The program is one thread that keeps running: a step that can be taken
\* is taken.
SpecEnumFair == SpecEnum /\ WF_vars(NextEnum)

\* ------------------------------------------------- vocabulary of the claims
\* An iteration of the loop is about to run for the granule of cur_date.
IterEnabled == pc = "loop" /\ cur_date <= end_date
Granule == paths_generator_yield(cur_date)
\* The granule's final path exists at the start of its iteration.
Present == Granule.local_abs_path \in DOMAIN localFiles
Wildcard == Granule.url.stem = "*"
\* The staging names this iteration's fetch writes.
WrittenByFetch ==
    IF Wildcard
    THEN {Path(StagingRoot, e.stem, cur_date, Granule.url.ext) : e \in archive[cur_date]}
    ELSE IF archive[cur_date] = {} THEN {} ELSE {Granule.local_rel_path}
ContentFetched(p) == (CHOOSE e \in archive[cur_date] : Wildcard => e.stem = p.stem).content
\* The iteration fetches and the staging listing has n files.
Fetching == IterEnabled /\ ~Present /\ ~wildcard_in_dir(Granule.url)
NoMatch == Fetching /\ Wildcard /\ Cardinality(WrittenByFetch) = 0
MultiMatch == Fetching /\ Wildcard /\ Cardinality(WrittenByFetch) > 1
OneStaged == Fetching /\ Cardinality(WrittenByFetch) = 1
TheStaged == CHOOSE p \in WrittenByFetch : TRUE
\* The final path the staged file is committed to.
FinalPath == IF Wildcard THEN with_basename(Granule.local_abs_path, TheStaged)
             ELSE Granule.local_abs_path
\* The staged file has the recognized extension and the reader cannot open it.
StagedInvalid == OneStaged /\ TheStaged.ext = ".nc" /\ ContentFetched(TheStaged) = "bad"
Proceeds == pc' = "loop" /\ cur_date' = cur_date + time_incr
EventsOf(r) == {i \in 1..Len(trace) : trace[i].run = r}
RangeCursors == {start_date + k * time_incr : k \in 0..((end_date - start_date) \div time_incr)}

\* --------------------------------------------------------------- claims
\* C1: in an iteration whose staged file is invalid, when the iteration
\* completes the final local path does not exist (it holds nothing that the
\* iteration put there) and the staged file is gone from the staging area.
C1_InvalidLeavesNothing ==
    [][StagedInvalid =>
          /\ (FinalPath \in DOMAIN localFiles' => FinalPath \in DOMAIN localFiles)
          /\ TheStaged \notin DOMAIN staging']_vars

\* C2: at the end of every granule iteration, however it ends, no file that
\* this iteration's fetch wrote remains in the staging area.
C2_NoStagedFileRemains ==
    [][Fetching => \A p \in WrittenByFetch : p \notin DOMAIN staging']_vars

\* C3: when the first run committed every granule of the range without a
\* failure and the archive is unchanged, the second run invokes the fetch capability zero
\* times, for exact-URL and wildcard-URL datasets alike.
C3_SecondRunFetchesNothing ==
    (/\ run = 2
     /\ ~Misconfigured
     /\ \A c \in RangeCursors :
           \E i \in EventsOf(1) : trace[i].ev = "commit" /\ trace[i].cur = c
     /\ \A i \in EventsOf(1) : trace[i].ev # "put_failed")
    => \A i \in EventsOf(2) : trace[i].ev # "fetch"

\* C4: the iteration of a granule whose local_absolute_path already exists
\* invokes neither fetch nor upload and leaves the staging area and every
\* file of the final tree unchanged.
C4_PresentGranuleUntouched ==
    [][(IterEnabled /\ Present) =>
          /\ trace' = trace
          /\ s3' = s3
          /\ staging' = staging
          /\ localFiles' = localFiles]_vars

\* C4 witness: the first granule was present and its iteration has run.
C4_Witness ==
    /\ pc = "loop"
    /\ run = 1
    /\ cur_date = time_incr
    /\ paths_generator_yield(0).local_abs_path \in DOMAIN localFiles
    /\ trace = <<>>

\* C5: when the staged file fails validation the run records one
\* recoverable error for the granule and goes on with the next cursor.
C5_InvalidGranuleDoesNotAbort ==
    [][StagedInvalid =>
          /\ Proceeds
          /\ trace' = Append(Append(trace, Event("fetch", cur_date)),
                             Event("unable", cur_date))]_vars

\* C6: when the mirror upload of a committed granule fails, the committed
\* file stays at its final path and the run goes on with the next cursor.
C6_UploadFailureDoesNotAbort ==
    [][(trace' # trace /\ trace'[Len(trace')].ev = "put_failed") =>
          /\ FinalPath \in DOMAIN localFiles'
          /\ Proceeds]_vars

\* C7: when the staging listing of a wildcard granule has more than one
\* file the run aborts with the multiple-match error; nothing is committed
\* or uploaded for the granule, and no later event happens in that run.
C7_MultiMatchAborts ==
    /\ [][MultiMatch =>
             /\ pc' = "aborted"
             /\ error' = "RuntimeError"
             /\ localFiles' = localFiles
             /\ s3' = s3
             /\ trace' = Append(trace, Event("fetch", cur_date))]_vars
    /\ [](\A i \in 1..Len(trace) :
             (/\ trace[i].ev = "fetch"
              /\ conf.url_template.stem = "*"
              /\ Cardinality(archive[trace[i].cur]) > 1)
             => \A j \in 1..Len(trace) : j > i => trace[j].run # trace[i].run)

\* C7 witness: a run has been aborted by a multiple match at its second granule.
C7_Witness ==
    /\ pc = "aborted"
    /\ error = "RuntimeError"
    /\ cur_date > 0
    /\ Cardinality(archive[cur_date]) > 1
    /\ trace # <<>>
    /\ trace[Len(trace)] = Event("fetch", cur_date)

\* C8 as stated: a NO_MATCH iteration leaves the final tree, files and
\* directories, and the staging area as they were, uploads nothing and
\* proceeds to the next granule.
C8_NoMatchNoSideEffects ==
    [][NoMatch =>
          /\ localFiles' = localFiles
          /\ localDirs' = localDirs
          /\ staging' = staging
          /\ s3' = s3
          /\ trace' = Append(trace, Event("fetch", cur_date))
          /\ Proceeds]_vars

\* C8 amended: a NO_MATCH iteration leaves the files of the final tree and
\* the staging area as they were, uploads nothing and proceeds to the next
\* granule; its only local effect is that the granule's target directory
\* exists afterwards.
C8_NoMatchOnlyMakesDir ==
    [][NoMatch =>
          /\ localFiles' = localFiles
          /\ localDirs' = localDirs \cup {dirname(Granule.local_abs_path)}
          /\ staging' = staging
          /\ s3' = s3
          /\ trace' = Append(trace, Event("fetch", cur_date))
          /\ Proceeds]_vars

\* C8 witness: the first granule had no match, its directory was created
\* and the loop is at the next cursor.
C8_Witness ==
    /\ pc = "loop"
    /\ run = 1
    /\ conf.url_template.stem = "*"
    /\ archive[0] = {}
    /\ cur_date = time_incr
    /\ trace = <<Event("fetch", 0)>>
    /\ localFiles = NoFiles
    /\ localDirs = {0}

\* C9: set_date_range returns a range with start <= end or fails with one
\* of the four named range errors; it never ends in any other way.
C9_RangeOrNamedError ==
    rpc = "done" =>
        \/ result.kind = "return" /\ result.start <= result.end
        \/ result.kind = "exit" /\ result.code \in ExitCodes

\* C10: with num_days = N >= 1 and exactly one of start / end, the result is
\* [midnight of day E-N+1, E 23:59:59] for an end day E, and
\* [S, S + N days - 1 second] for a start S (when the future-start rule
\* does not fire).
C10_NumDaysWithOneBound ==
    (rpc = "done" /\ has(args, "num_days") /\ args["num_days"] >= 1) =>
        /\ ("end_date" \in DOMAIN args /\ "start_date" \notin DOMAIN args) =>
              result = return(datetime(args["end_date"].day - args["num_days"] + 1, 0, 0, 0),
                              datetime(args["end_date"].day, 23, 59, 59))
        /\ ("start_date" \in DOMAIN args /\ "end_date" \notin DOMAIN args) =>
              LET S == datetime(args["start_date"].day, args["start_date"].hour, 0, 0)
              IN  S <= datetime(utc_today, 0, 0, 0) =>
                     result = return(S, S + args["num_days"] * 86400 - 1)

\* The future-start rule or the end-before-start rule fires on the arguments.
FutureStart ==
    /\ "start_date" \in DOMAIN args
    /\ datetime(args["start_date"].day, args["start_date"].hour, 0, 0)
          > datetime(utc_today, 0, 0, 0)
EndBeforeStart ==
    /\ "start_date" \in DOMAIN args
    /\ "end_date" \in DOMAIN args
    /\ datetime(args["end_date"].day, args["end_date"].hour, 59, 59)
          < datetime(args["start_date"].day, args["start_date"].hour, 0, 0)

\* C11: whenever num_days is present and less than 1, zero included,
\* set_date_range fails with the invalid-day-count error and returns no
\* range, when neither the future-start nor the end-before-start rule fires
\* first.  (The inputs with an end date and no start date, which raise at
\* line 84 whatever num_days is, are left aside here.)
C11_DayCountBelowOneFails ==
    (/\ rpc = "done"
     /\ "num_days" \in DOMAIN args
     /\ args["num_days"] < 1
     /\ ~FutureStart
     /\ ~EndBeforeStart
     /\ ("end_date" \in DOMAIN args => "start_date" \in DOMAIN args))
    => result = exit(3)

\* C12: whenever start, end and num_days are all three present and none of
\* the rules before it fires (start not in the future, end not before start,
\* num_days >= 1), set_date_range fails with the overconstrained-range error
\* and returns no range.
C12_AllThreeOverconstrained ==
    (/\ rpc = "done"
     /\ DOMAIN args = ArgKeys
     /\ ~FutureStart
     /\ ~EndBeforeStart
     /\ args["num_days"] >= 1)
    => result = exit(4)

\* C12 witness: a call with all three arguments has ended with exit code 4.
C12_Witness ==
    /\ rpc = "done"
    /\ DOMAIN args = ArgKeys
    /\ args["num_days"] >= 1
    /\ ~FutureStart
    /\ ~EndBeforeStart
    /\ result = exit(4)

\* The duration grammar: one or more digits followed by one unit letter.
GrammarAccepts(s) ==
    /\ Len(s) >= 2
    /\ s[Len(s)] \in UnitLetters
    /\ \A i \in 1..(Len(s) - 1) : IsDigit(s[i])

\* C13: for a range with start <= end and a positive time step,
\* paths_generator yields exactly floor((end - start) / step) + 1 candidates;
\* the cursor of the last one is <= end and that cursor plus one step is > end.
C13_EnumerationCount ==
    pc = "gen_done" =>
        /\ nyield = (end_date - start_date) \div time_incr + 1
        /\ cur_date - time_incr <= end_date
        /\ cur_date > end_date

\* C13 witness: an enumeration of more than one candidate has ended with its
\* last cursor exactly on the end of the range.
C13_Witness ==
    /\ pc = "gen_done"
    /\ nyield > 1
    /\ cur_date - time_incr = end_date

\* C14: for every time_res that the duration grammar accepts, the
\* enumeration of paths_generator eventually ends.
C14_EnumerationEnds ==
    <>(GrammarAccepts(conf.time_res) => pc \in {"gen_done", "gen_raised"})

C16_ConfigErrorBeforeNetwork ==
    (conf.local_path_template.abs \/ ~GrammarAccepts(conf.time_res)) =>
        /\ trace = <<>>
        /\ s3 = NoFiles
        /\ staging = NoFiles
        /\ pc \in {"start", "aborted"}
        /\ pc = "aborted" => error \in {"ValueError", "KeyError", "IndexError"}

\* C17: the final tree changes only by the commit of the file this granule's
\* fetch staged, after it passed validation; an upload is invoked only right
\* after the commit of the same granule and only with a mirror configured;
\* a commit comes only right after the fetch of the same granule.
C17_CommitThenUpload ==
    /\ [][localFiles' # localFiles =>
             /\ OneStaged
             /\ TheStaged.ext # ".nc" \/ ContentFetched(TheStaged) = "good"
             /\ localFiles' = write_files(localFiles,
                    [p \in {FinalPath} |-> ContentFetched(TheStaged)])
             /\ TheStaged \notin DOMAIN staging']_vars
    /\ [][s3' # s3 => /\ conf.s3_basedir
                      /\ FinalPath \in DOMAIN localFiles'
                      /\ s3' = write_files(s3, [p \in {FinalPath} |-> localFiles'[FinalPath]])]_vars
    /\ [](\A i \in 1..Len(trace) :
             /\ trace[i].ev = "upload" =>
                   /\ conf.s3_basedir
                   /\ i > 1
                   /\ trace[i - 1] = [trace[i] EXCEPT !.ev = "commit"]
             /\ trace[i].ev = "commit" =>
                   /\ i > 1
                   /\ trace[i - 1] = [trace[i] EXCEPT !.ev = "fetch"])

\* C17 witness: a granule has been fetched, committed and uploaded.
C17_Witness ==
    /\ Len(trace) = 3
    /\ trace[1].ev = "fetch" /\ trace[2].ev = "commit" /\ trace[3].ev = "upload"
    /\ s3 # NoFiles
    /\ DOMAIN s3 = DOMAIN localFiles

\* C18: for a granule that is not present and whose URL has a wildcard in a
\* directory segment the run fails with the error before fetch is invoked:
\* nothing is staged, committed or uploaded for it.
C18_DirectoryWildcardFails ==
    [][(IterEnabled /\ ~Present /\ Granule.url.dir = WildDir) =>
          /\ pc' = "aborted"
          /\ error' = "ValueError"
          /\ trace' = trace
          /\ staging' = staging
          /\ localFiles' = localFiles
          /\ s3' = s3]_vars

\* C18 witness: after a present granule was skipped, the run failed at the
\* next one on the wildcard of the directory, with no fetch made.
C18_Witness ==
    /\ conf.url_template.dir_wild
    /\ pc = "aborted"
    /\ error = "ValueError"
    /\ cur_date > start_date
    /\ trace = <<>>
    /\ staging = NoFiles

\* C19: every file of the final tree stays, with the same content, through
\* every step of a run: the pipeline never overwrites, replaces or deletes
\* a final file that exists.
C19_ExistingFilesKept ==
    [][\A p \in DOMAIN localFiles :
           p \in DOMAIN localFiles' /\ localFiles'[p] = localFiles[p]]_vars

====
